---- MODULE Spec2Model ----
(***************************************************************************)
(* A model of scripts/add_csharp_xml_docs.py: the identifier tokenizer,    *)
(* the comment block locator, the block builders, the heuristic            *)
(* classifier and the reconciliation driver process_file, with main        *)
(* invoking it on one file.                                                *)
(*                                                                         *)
(* Text is modelled structurally.  A word is a TLA+ string; Chars spells   *)
(* the words whose characters the code inspects.  The Korean literals of   *)
(* the source are named by ASCII strings, each introduced next to the      *)
(* literal it stands for.  Indices are 0-based as in the source: At(s, k)  *)
(* is s[k] of the Python list.                                             *)
(***************************************************************************)
EXTENDS Naturals, Integers, Sequences, FiniteSets, TLC

VARIABLES
    ident,          \* split_identifier: the argument
    frags,          \* split_identifier: the returned list
    tpc,            \* "call" before the call, "ret" after it
    path,           \* main: the one .cs file under the root, as path segments
    disk,           \* the content of that file, a sequence of lines
    pc,             \* "idle": main is about to call process_file;
                    \* "scan": process_file is in its while loop;
                    \* "done": main has printed its summary
    total,          \* main: total
    changed_files,  \* main: changed
    text,           \* process_file: text
    lines,          \* process_file: lines
    changed,        \* process_file: changed
    current_type,   \* process_file: current_type
    i,              \* process_file: i
    runs,           \* how many times the tool has been run on the file
    after,          \* history: the content of the file after each run
    wrote,          \* history: this run called write_text
    ids,            \* history: for each line of the buffer, its index in the
                    \* file as read (1-based), 0 for a line of a built block
    tested,         \* history: how often each line of the file as read has
                    \* been the line the patterns were tried on
    tested_built,   \* history: the same count for the lines of built blocks
    step            \* history: what the last iteration of the loop did

tokVars == <<ident, frags, tpc>>

fileVars == <<path, disk, pc, total, changed_files, text, lines, changed,
              current_type, i, runs, after, wrote, ids, tested, tested_built, step>>

vars == <<ident, frags, tpc, path, disk, pc, total, changed_files, text, lines, changed,
          current_type, i, runs, after, wrote, ids, tested, tested_built, step>>

----------------------------------------------------------------------------
(* Characters *)

UPPER == <<"A","B","C","D","E","F","G","H","I","J","K","L","M",
           "N","O","P","Q","R","S","T","U","V","W","X","Y","Z">>
LOWER == <<"a","b","c","d","e","f","g","h","i","j","k","l","m",
           "n","o","p","q","r","s","t","u","v","w","x","y","z">>
DIGITS == {"0","1","2","3","4","5","6","7","8","9"}

Range(s) == {s[k] : k \in 1..Len(s)}

UpperSet == Range(UPPER)
LowerSet == Range(LOWER)
AlnumSet == UpperSet \cup LowerSet \cup DIGITS

\* str.lower() on one character
ToLower(c) ==
    IF c \in UpperSet THEN LOWER[CHOOSE k \in 1..Len(UPPER) : UPPER[k] = c] ELSE c

\* str.lower()
LowerStr(s) == [k \in 1..Len(s) |-> ToLower(s[k])]

\* str.startswith
StartsWith(s, p) == Len(p) <= Len(s) /\ SubSeq(s, 1, Len(p)) = p

\* str.endswith
EndsWith(s, p) == Len(p) <= Len(s) /\ SubSeq(s, Len(s) - Len(p) + 1, Len(s)) = p

\* the "in" operator on strings: p occurs in s
Occurs(p, s) == \E k \in 0..(Len(s) - Len(p)) : SubSeq(s, k + 1, k + Len(p)) = p

RECURSIVE Flatten(_)
\* "".join(parts)
Flatten(parts) ==
    IF parts = <<>> THEN <<>> ELSE Head(parts) \o Flatten(Tail(parts))

RECURSIVE SelectChars(_, _)
\* the characters of s that lie in set S, in order
SelectChars(s, S) ==
    IF s = <<>> THEN <<>>
    ELSE (IF Head(s) \in S THEN <<Head(s)>> ELSE <<>>) \o SelectChars(Tail(s), S)

----------------------------------------------------------------------------
(* split_identifier: re.findall(r"[A-Z]?[a-z]+|[A-Z]+(?![a-z])|\d+", name) *)

RECURSIVE RunLen(_, _, _)
\* the length of the longest run of characters of S in s that starts at
\* position p (1-based); a greedy X+ of the regular expression
RunLen(S, s, p) ==
    IF p <= Len(s) /\ s[p] \in S THEN 1 + RunLen(S, s, p + 1) ELSE 0

\* [A-Z]?[a-z]+ at p: the length matched, 0 for no match
WordAlt(s, p) ==
    IF s[p] \in UpperSet /\ RunLen(LowerSet, s, p + 1) > 0
    THEN 1 + RunLen(LowerSet, s, p + 1)
    ELSE RunLen(LowerSet, s, p)

\* [A-Z]+ with two letters at least, as the prose of the tokenizer has it
AcronymAltTwoOrMore(s, p) ==
    LET k == RunLen(UpperSet, s, p)
        m == IF p + k <= Len(s) /\ s[p + k] \in LowerSet THEN k - 1 ELSE k
    IN  IF m >= 2 THEN m ELSE 0

\* [A-Z]+(?![a-z]) at p: the greedy run, given back one letter when a
\* lowercase letter follows it; 0 for no match
AcronymAlt(s, p) ==
    LET k == RunLen(UpperSet, s, p)
    IN  IF k = 0 THEN 0
        ELSE IF p + k <= Len(s) /\ s[p + k] \in LowerSet THEN k - 1 ELSE k

\* \d+ at p
DigitAlt(s, p) == RunLen(DIGITS, s, p)

\* the alternation at p: the first alternative that matches wins
MatchLen(s, p) ==
    IF WordAlt(s, p) > 0 THEN WordAlt(s, p)
    ELSE IF AcronymAlt(s, p) > 0 THEN AcronymAlt(s, p)
    ELSE DigitAlt(s, p)

RECURSIVE FindAll(_, _)
\* re.findall from position p: non-overlapping matches, left to right; a
\* character where nothing matches is passed over
FindAll(s, p) ==
    IF p > Len(s) THEN <<>>
    ELSE LET n == MatchLen(s, p)
         IN  IF n = 0 THEN FindAll(s, p + 1)
             ELSE <<SubSeq(s, p, p + n - 1)>> \o FindAll(s, p + n)

split_identifier(name) == SelectSeq(FindAll(name, 1), LAMBDA q : q /= <<>>)

----------------------------------------------------------------------------
(* Words.  Spelling gives the characters of every word of the model's     *)
(* vocabulary, for the operations of the source that look inside a string *)
(* (lower, startswith, endswith, in, the tokenizer).                      *)

Spelling ==
    "public" :> <<"p", "u", "b", "l", "i", "c">> @@
    "internal" :> <<"i", "n", "t", "e", "r", "n", "a", "l">> @@
    "private" :> <<"p", "r", "i", "v", "a", "t", "e">> @@
    "static" :> <<"s", "t", "a", "t", "i", "c">> @@
    "partial" :> <<"p", "a", "r", "t", "i", "a", "l">> @@
    "virtual" :> <<"v", "i", "r", "t", "u", "a", "l">> @@
    "override" :> <<"o", "v", "e", "r", "r", "i", "d", "e">> @@
    "sealed" :> <<"s", "e", "a", "l", "e", "d">> @@
    "async" :> <<"a", "s", "y", "n", "c">> @@
    "new" :> <<"n", "e", "w">> @@
    "class" :> <<"c", "l", "a", "s", "s">> @@
    "struct" :> <<"s", "t", "r", "u", "c", "t">> @@
    "interface" :> <<"i", "n", "t", "e", "r", "f", "a", "c", "e">> @@
    "enum" :> <<"e", "n", "u", "m">> @@
    "void" :> <<"v", "o", "i", "d">> @@
    "int" :> <<"i", "n", "t">> @@
    "bool" :> <<"b", "o", "o", "l">> @@
    "object" :> <<"o", "b", "j", "e", "c", "t">> @@
    "string" :> <<"s", "t", "r", "i", "n", "g">> @@
    "Color" :> <<"C", "o", "l", "o", "r">> @@
    "ref" :> <<"r", "e", "f">> @@
    "out" :> <<"o", "u", "t">> @@
    "in" :> <<"i", "n">> @@
    "params" :> <<"p", "a", "r", "a", "m", "s">> @@
    "this" :> <<"t", "h", "i", "s">> @@
    "=" :> <<"=">> @@
    "Widget" :> <<"W", "i", "d", "g", "e", "t">> @@
    "IFoo" :> <<"I", "F", "o", "o">> @@
    "TryParse" :> <<"T", "r", "y", "P", "a", "r", "s", "e">> @@
    "Convert" :> <<"C", "o", "n", "v", "e", "r", "t">> @@
    "ConvertBack" :> <<"C", "o", "n", "v", "e", "r", "t", "B", "a", "c", "k">> @@
    "ToColor" :> <<"T", "o", "C", "o", "l", "o", "r">> @@
    "Count" :> <<"C", "o", "u", "n", "t">> @@
    "Contains" :> <<"C", "o", "n", "t", "a", "i", "n", "s">> @@
    "StartsWith" :> <<"S", "t", "a", "r", "t", "s", "W", "i", "t", "h">> @@
    "EndsWith" :> <<"E", "n", "d", "s", "W", "i", "t", "h">> @@
    "size" :> <<"s", "i", "z", "e">> @@
    "input" :> <<"i", "n", "p", "u", "t">> @@
    "result" :> <<"r", "e", "s", "u", "l", "t">> @@
    "value" :> <<"v", "a", "l", "u", "e">> @@
    "str" :> <<"s", "t", "r">> @@
    "IValue" :> <<"I", "V", "a", "l", "u", "e">> @@
    "Converter" :> <<"C", "o", "n", "v", "e", "r", "t", "e", "r">> @@
    "defaultColor" :> <<"d", "e", "f", "a", "u", "l", "t", "C", "o", "l", "o", "r">> @@
    "collection" :> <<"c", "o", "l", "l", "e", "c", "t", "i", "o", "n">> @@
    "items" :> <<"i", "t", "e", "m", "s">> @@
    "color" :> <<"c", "o", "l", "o", "r">> @@
    "IValueConverter" :> <<"I", "V", "a", "l", "u", "e", "C", "o", "n", "v", "e", "r", "t", "e", "r">> @@
    "System.Windows.Data" :> <<"S", "y", "s", "t", "e", "m", ".", "W", "i", "n", "d", "o", "w", "s", ".", "D", "a", "t", "a">> @@
    "Converters" :> <<"C", "o", "n", "v", "e", "r", "t", "e", "r", "s">> @@
    "Helpers" :> <<"H", "e", "l", "p", "e", "r", "s">> @@
    "Attribute" :> <<"A", "t", "t", "r", "i", "b", "u", "t", "e">> @@
    "Extensions" :> <<"E", "x", "t", "e", "n", "s", "i", "o", "n", "s">> @@
    "Ext" :> <<"E", "x", "t">> @@
    "I" :> <<"I">> @@
    "Try" :> <<"T", "r", "y">> @@
    "Is" :> <<"I", "s">> @@
    "Has" :> <<"H", "a", "s">> @@
    "Back" :> <<"B", "a", "c", "k">> @@
    "get" :> <<"g", "e", "t">> @@
    "set" :> <<"s", "e", "t">> @@
    "add" :> <<"a", "d", "d">> @@
    "remove" :> <<"r", "e", "m", "o", "v", "e">> @@
    "update" :> <<"u", "p", "d", "a", "t", "e">> @@
    "create" :> <<"c", "r", "e", "a", "t", "e">> @@
    "build" :> <<"b", "u", "i", "l", "d">> @@
    "delete" :> <<"d", "e", "l", "e", "t", "e">> @@
    "find" :> <<"f", "i", "n", "d">> @@
    "search" :> <<"s", "e", "a", "r", "c", "h">> @@
    "load" :> <<"l", "o", "a", "d">> @@
    "save" :> <<"s", "a", "v", "e">> @@
    "parse" :> <<"p", "a", "r", "s", "e">> @@
    "to" :> <<"t", "o">> @@
    "convert" :> <<"c", "o", "n", "v", "e", "r", "t">> @@
    "try" :> <<"t", "r", "y">> @@
    "is" :> <<"i", "s">> @@
    "has" :> <<"h", "a", "s">> @@
    "targettype" :> <<"t", "a", "r", "g", "e", "t", "t", "y", "p", "e">> @@
    "param" :> <<"p", "a", "r", "a", "m">> @@
    "parameter" :> <<"p", "a", "r", "a", "m", "e", "t", "e", "r">> @@
    "culture" :> <<"c", "u", "l", "t", "u", "r", "e">> @@
    "target" :> <<"t", "a", "r", "g", "e", "t">> @@
    "type" :> <<"t", "y", "p", "e">> @@
    "name" :> <<"n", "a", "m", "e">> @@
    "attr" :> <<"a", "t", "t", "r">> @@
    "actual" :> <<"a", "c", "t", "u", "a", "l">> @@
    "expect" :> <<"e", "x", "p", "e", "c", "t">> @@
    "op" :> <<"o", "p">> @@
    "obj" :> <<"o", "b", "j">> @@
    "AddRange" :> <<"A", "d", "d", "R", "a", "n", "g", "e">> @@
    "GetColorName" :> <<"G", "e", "t", "C", "o", "l", "o", "r", "N", "a", "m", "e">> @@
    "TryConvertColor" :> <<"T", "r", "y", "C", "o", "n", "v", "e", "r", "t", "C", "o", "l", "o", "r">> @@
    "ToList" :> <<"T", "o", "L", "i", "s", "t">> @@
    "ColorHelper.cs" :> <<"C", "o", "l", "o", "r", "H", "e", "l", "p", "e", "r", ".", "c", "s">> @@
    "CollectionHelper.cs" :> <<"C", "o", "l", "l", "e", "c", "t", "i", "o", "n", "H", "e", "l", "p", "e", "r", ".", "c", "s">> @@
    "DataTableHelper.cs" :> <<"D", "a", "t", "a", "T", "a", "b", "l", "e", "H", "e", "l", "p", "e", "r", ".", "c", "s">> @@
    "Main.cs" :> <<"M", "a", "i", "n", ".", "c", "s">> @@
    "Views" :> <<"V", "i", "e", "w", "s">> @@
    "Attr" :> <<"A", "t", "t", "r">> @@
    "x" :> <<"x">>

Chars(w) == Spelling[w]

----------------------------------------------------------------------------
(* Lines.  A line of the file is one of                                    *)
(*   [tag |-> "blank"]                       an empty line                 *)
(*   [tag |-> "attr", w]                     [w]                           *)
(*   [tag |-> "doc", k, ...]                 /// ...                       *)
(*   [tag |-> "code", words, paren, params, tail]                          *)
(*        the words separated by white space, then, with paren, a          *)
(*        parenthesized parameter list, then the rest of the line.         *)
(* Leading white space is left out: every test of the source is made on    *)
(* the line after lstrip, or by a pattern that begins with \s*.            *)
(* A parameter is a sequence of tokens separated by white space; a token   *)
(* is a sequence of pieces, a piece a word or a bracketed [word].          *)

Piece(w) == [attr |-> FALSE, w |-> w]
Bracket(w) == [attr |-> TRUE, w |-> w]
Tok(w) == <<Piece(w)>>

BlankLine == [tag |-> "blank"]
AttrLine(w) == [tag |-> "attr", w |-> w]
CodeLine(words, paren, params, tail) ==
    [tag |-> "code", words |-> words, paren |-> paren, params |-> params, tail |-> tail]

\* "/// <summary>", "/// </summary>"
DocOpen == [tag |-> "doc", k |-> "open"]
DocClose == [tag |-> "doc", k |-> "close"]
\* "/// " then the words of obj joined by spaces, then the literal suf
DocText(obj, suf) == [tag |-> "doc", k |-> "text", obj |-> obj, suf |-> suf]
\* "/// <param name=\"name\">desc</param>"
DocParam(name, desc) == [tag |-> "doc", k |-> "param", name |-> name, desc |-> desc]
\* "/// <returns>desc</returns>"
DocReturns(desc) == [tag |-> "doc", k |-> "returns", desc |-> desc]

\* s.lstrip().startswith("///")
IsDocLine(l) == l.tag = "doc"
\* st.strip() == ""
IsBlankLine(l) == l.tag = "blank"
\* st.startswith("[")
IsAttrLine(l) == l.tag = "attr"

\* s[k] of a Python list
At(s, k) == s[k + 1]
\* s[a:b] of a Python list, 0 <= a <= b <= len(s)
Slice(s, a, b) == SubSeq(s, a + 1, b)

\* the characters of a token as written, brackets included
RawToken(tok) ==
    Flatten([k \in 1..Len(tok) |->
        IF tok[k].attr THEN <<"[">> \o Chars(tok[k].w) \o <<"]">> ELSE Chars(tok[k].w)])

\* the ASCII stretches of a line's text, as characters; the Korean
\* literals, which hold none of the ASCII texts looked for, are left out
LineTexts(l) ==
    IF l.tag = "attr" THEN {<<"[">> \o Chars(l.w) \o <<"]">>}
    ELSE IF l.tag = "code"
    THEN {Chars(l.words[k]) : k \in 1..Len(l.words)}
         \cup UNION {{RawToken(l.params[p][t]) : t \in 1..Len(l.params[p])} :
                         p \in 1..Len(l.params)}
    ELSE IF l.tag = "doc" /\ l.k = "text" THEN {l.obj}
    ELSE IF l.tag = "doc" /\ l.k = "param" THEN {l.name}
    ELSE {}

\* cue in text, for a cue without white space
TextHas(file_text, cue) ==
    \E k \in 1..Len(file_text) : \E w \in LineTexts(file_text[k]) : Occurs(Chars(cue), w)

----------------------------------------------------------------------------
(* The declaration patterns *)

ACCESS == {"public", "internal"}
TYPE_KINDS == {"class", "struct", "interface", "enum"}
METHOD_MODIFIERS == {"static", "virtual", "override", "sealed", "async", "new"}
\* what may follow the parameter list: {, =>, where, or the end of the line
METHOD_TAILS == {"{", "=>", "where", ""}
\* the rests of a line that begin with {
BRACE_TAILS == {"{", "{ get; }", "{ get; set; }"}

Letters == UpperSet \cup LowerSet

\* [A-Za-z_][A-Za-z0-9_]*
IsIdentifier(w) ==
    LET c == Chars(w)
    IN  /\ c /= <<>>
        /\ c[1] \in Letters \cup {"_"}
        /\ \A k \in 1..Len(c) : c[k] \in AlnumSet \cup {"_"}

\* [A-Za-z0-9_<>,\[\]\.\?]+
IsTypeToken(w) ==
    LET c == Chars(w)
    IN  /\ c /= <<>>
        /\ \A k \in 1..Len(c) : c[k] \in AlnumSet \cup {"_", "<", ">", ",", "[", "]", ".", "?"}

NoMatch == [ok |-> FALSE]

\* TYPE_PATTERN.match(line): access, static?, partial?, kind, identifier
TYPE_PATTERN(l) ==
    IF l.tag /= "code" \/ Len(l.words) < 3 \/ l.words[1] \notin ACCESS THEN NoMatch
    ELSE LET w == l.words
             n == Len(w)
             p1 == IF w[2] = "static" THEN 3 ELSE 2
             p2 == IF p1 <= n /\ w[p1] = "partial" THEN p1 + 1 ELSE p1
         IN  IF p2 + 1 <= n /\ w[p2] \in TYPE_KINDS /\ IsIdentifier(w[p2 + 1])
             THEN [ok |-> TRUE, kind |-> w[p2], name |-> w[p2 + 1]]
             ELSE NoMatch

\* METHOD_PATTERN.match(line): access, modifiers, a return type token, white
\* space, an identifier, the parameter list, one of METHOD_TAILS.  The word
\* before the parenthesis is the name and the word before it the return type,
\* so every word between the access modifier and the return type is a modifier.
METHOD_PATTERN(l) ==
    IF l.tag /= "code" \/ ~l.paren \/ Len(l.words) < 3 THEN NoMatch
    ELSE LET w == l.words
             n == Len(w)
         IN  IF /\ w[1] \in ACCESS
                /\ \A k \in 2..(n - 2) : w[k] \in METHOD_MODIFIERS
                /\ IsTypeToken(w[n - 1])
                /\ IsIdentifier(w[n])
                /\ l.tail \in METHOD_TAILS
             THEN [ok |-> TRUE, ret |-> w[n - 1], name |-> w[n], params |-> l.params]
             ELSE NoMatch

\* PROPERTY_PATTERN.match(line) and '(' not in line: access, static?, a type
\* token, an identifier, then {
PROPERTY_PATTERN(l) ==
    IF l.tag /= "code" \/ l.paren \/ l.tail \notin BRACE_TAILS THEN NoMatch
    ELSE LET w == l.words
             n == Len(w)
         IN  IF /\ n \in {3, 4}
                /\ w[1] \in ACCESS
                /\ (n = 4 => w[2] = "static")
                /\ IsTypeToken(w[n - 1])
                /\ IsIdentifier(w[n])
             THEN [ok |-> TRUE, name |-> w[n]]
             ELSE NoMatch

----------------------------------------------------------------------------
(* find_preceding_xml_block *)

None == <<>>

RECURSIVE BlockStartAcrossBlanks(_, _)
\* the upward collection, were it to run on over blank lines
BlockStartAcrossBlanks(buf, start) ==
    IF start - 1 >= 0 /\ (IsDocLine(At(buf, start - 1)) \/ IsBlankLine(At(buf, start - 1)))
    THEN BlockStartAcrossBlanks(buf, start - 1)
    ELSE start

RECURSIVE BlockStart(_, _)
\* while start - 1 >= 0 and lines[start - 1].lstrip().startswith("///"):
\*     start -= 1
BlockStart(buf, start) ==
    IF start - 1 >= 0 /\ IsDocLine(At(buf, start - 1))
    THEN BlockStart(buf, start - 1)
    ELSE start

RECURSIVE ScanUp(_, _)
\* the while j >= 0 loop: the block that ends at the first /// line met,
\* blank and attribute lines passed over, None at any other line
ScanUp(buf, j) ==
    IF j < 0 THEN None
    ELSE IF IsDocLine(At(buf, j)) THEN <<BlockStart(buf, j), j>>
    ELSE IF IsBlankLine(At(buf, j)) \/ (IsAttrLine(At(buf, j)) /\ ~IsDocLine(At(buf, j)))
    THEN ScanUp(buf, j - 1)
    ELSE None

find_preceding_xml_block(buf, idx) == ScanUp(buf, idx - 1)

----------------------------------------------------------------------------
(* The Korean literals of the source, each named by an ASCII string *)

S_IFACE_OF == " interface defined"           \* " 인터페이스를 정의합니다."
S_IFACE == "interface defined"               \* "인터페이스를 정의합니다."
S_ENUM == "enum defined"                     \* "열거형을 정의합니다."
S_CONVERTER_TYPE == "value converter provided"   \* "값 변환기를 제공합니다."
S_HELPER_TYPE == "utility methods provided"  \* "유틸리티 메서드를 제공합니다."
S_ATTRIBUTE_TYPE == "custom attribute defined"   \* "사용자 지정 특성을 정의합니다."
S_EXTENSION_TYPE == "extension methods provided" \* "확장 메서드를 제공합니다."
S_PROVIDES == " provided"                    \* "를(을) 제공합니다."
S_GET == " gets"                             \* "를(을) 가져옵니다."
S_GET_VALUE == "gets the value"              \* "값을 가져옵니다."
S_SET == " sets"                             \* "를(을) 설정합니다."
S_SET_VALUE == "sets the value"              \* "값을 설정합니다."
S_ADD == " adds"                             \* "를(을) 추가합니다."
S_REMOVE == " removes"                       \* "를(을) 제거합니다."
S_UPDATE == " updates"                       \* "를(을) 업데이트합니다."
S_CREATE == " creates"                       \* "를(을) 생성합니다."
S_DELETE == " deletes"                       \* "를(을) 삭제합니다."
S_FIND == " finds"                           \* "를(을) 찾습니다."
S_LOAD == " loads"                           \* "를(을) 로드합니다."
S_SAVE == " saves"                           \* "를(을) 저장합니다."
S_PARSE == " parses"                         \* "를(을) 구문 분석합니다."
S_CONVERT_VALUE == "converts the value"      \* "값을 변환합니다."
S_CONVERT_BACK == "converts the target value back to the source"
                                             \* "대상 값을 원본으로 변환합니다."
S_TO == " converts to"                       \* "로 변환합니다."
S_TRY == " tries, returns whether it succeeded"
                                             \* "를(을) 시도하고, 성공 여부를 반환합니다."
S_IS == " checks whether it is"              \* "인지 여부를 확인합니다."
S_HAS == " checks whether it has"            \* "를(을) 보유하는지 여부를 확인합니다."
S_CONTAINS == "checks whether it contains"   \* "포함 여부를 확인합니다."
S_STARTSWITH == "checks whether it starts"   \* "시작 여부를 확인합니다."
S_ENDSWITH == "checks whether it ends"       \* "끝나는지 여부를 확인합니다."
S_GET_OR_SET == " gets or sets"              \* "를(을) 가져오거나 설정합니다."
S_FALLBACK == "performs the action"          \* "동작을 수행합니다."

\* the summaries of DOC_OVERRIDES
O_ADDRANGE == "override summary of AddRange"
    \* "지정한 항목들을 컬렉션에 순차적으로 추가합니다."
O_GETCOLORNAME == "override summary of GetColorName"
    \* "입력 색상과 일치하는 미리 정의된 색상 이름을 반환합니다. 없으면 색상 문자열을 반환합니다."
O_TOCOLOR == "override summary of ToColor"
    \* "문자열 표현을 Color로 변환합니다. 실패 시 기본 색을 반환합니다."
O_TRYCONVERTCOLOR == "override summary of TryConvertColor"
    \* "문자열을 Color로 변환을 시도합니다."
O_TOLIST == "override summary of ToList"
    \* "컬렉션의 항목을 목록(List)으로 변환합니다."

\* texts of comment lines of an input file that the tool did not write
A_PLACEHOLDER == "placeholder"               \* "설명"
A_AUTHOR == "hand-written text"              \* any other text

R_SUCCESS == "returns true on success"       \* "성공하면 true를 반환합니다."
R_CONDITION == "returns true if the condition holds"
                                             \* "조건을 만족하면 true를 반환합니다."
R_CONVERTED == "returns the conversion result"   \* "변환 결과를 반환합니다."
R_RESULT == "returns the result"             \* "결과를 반환합니다."

D_DEFAULT == "parameter"                     \* "매개 변수"

\* None where a text is expected; None and "" are both false in `or`
NoText == ""

\* the literals in which "여부" occurs
HasYeobu == {S_TRY, S_IS, S_HAS, S_CONTAINS, S_STARTSWITH, S_ENDSWITH}
\* the literals in which "성공" occurs
HasSeonggong == {S_TRY}
\* the literals in which "변환" occurs
HasByeonhwan == {S_CONVERTER_TYPE, S_CONVERT_VALUE, S_CONVERT_BACK, S_TO,
                 O_TOCOLOR, O_TRYCONVERTCOLOR, O_TOLIST}
\* the literals in which "로 변환합니다." occurs
HasRoByeonhwan == {S_TO, S_CONVERT_BACK, O_TOCOLOR, O_TOLIST}
\* the literals that begin with "로 변환합니다."
StartsRoByeonhwan == {S_TO}
\* the literals that begin with "설명"
StartsSeolmyeong == {A_PLACEHOLDER}

\* a summary sentence: the ASCII noun phrase it begins with, as characters,
\* then one literal
Sentence(obj, suf) == [obj |-> obj, suf |-> suf]

----------------------------------------------------------------------------
(* to_korean_noun, split_identifier's users *)

RECURSIVE Join(_, _)
\* sep.join(parts)
Join(parts, sep) ==
    IF parts = <<>> THEN <<>>
    ELSE IF Len(parts) = 1 THEN parts[1]
    ELSE parts[1] \o sep \o Join(Tail(parts), sep)

to_korean_noun(tokens) == Join(tokens, <<" ">>)

\* tokens[1:]
Rest(tokens) == IF tokens = <<>> THEN <<>> ELSE Tail(tokens)

----------------------------------------------------------------------------
(* param_korean_desc, return_korean_desc_by_name *)

\* the mapping of param_korean_desc
PARAM_DESC ==
    "value" :> "input value" @@           \* "입력 값"
    "targettype" :> "target type" @@      \* "대상 형식"
    "param" :> D_DEFAULT @@               \* "매개 변수"
    "parameter" :> D_DEFAULT @@           \* "매개 변수"
    "culture" :> "culture info" @@        \* "문화권 정보"
    "target" :> "target" @@               \* "대상"
    "type" :> "type" @@                   \* "형식"
    "name" :> "name" @@                   \* "이름"
    "collection" :> "collection" @@       \* "컬렉션"
    "items" :> "items" @@                 \* "항목들"
    "str" :> "string" @@                  \* "문자열"
    "color" :> "colour" @@                \* "색"
    "attr" :> "attribute" @@              \* "특성"
    "actual" :> "actual value" @@         \* "실제값"
    "expect" :> "expected value" @@       \* "기대값"
    "op" :> "operator" @@                 \* "연산자"
    "obj" :> "target"                     \* "대상"

\* d.get(key, default) for a dict d keyed by words and a key given as
\* characters
Lookup(d, key, default) ==
    IF \E w \in DOMAIN d : Chars(w) = key
    THEN d[CHOOSE w \in DOMAIN d : Chars(w) = key]
    ELSE default

param_korean_desc(name) == Lookup(PARAM_DESC, LowerStr(name), D_DEFAULT)

\* the noun phrase of a sentence is ASCII, so a Korean text occurs in the
\* sentence exactly if it occurs in the literal
return_korean_desc_by_name(summary_text) ==
    IF summary_text.suf \in HasYeobu
    THEN (IF summary_text.suf \in HasSeonggong THEN R_SUCCESS ELSE R_CONDITION)
    ELSE IF summary_text.suf \in HasByeonhwan THEN R_CONVERTED
    ELSE R_RESULT

----------------------------------------------------------------------------
(* build_summary_block, build_method_block *)

build_summary_block(summary_text) ==
    <<DocOpen, DocText(summary_text.obj, summary_text.suf), DocClose>>

PARAM_MODIFIERS == {"ref", "out", "in", "params", "this"}

\* re.sub(r"\[[^\]]*\]", "", raw) on one token: its bracketed pieces go,
\* and what is left of it is one word
StripAttrs(tok) ==
    Flatten([k \in 1..Len(tok) |-> IF tok[k].attr THEN <<>> ELSE Chars(tok[k].w)])

\* raw.split('=')[0]: the tokens before the first "="
RECURSIVE BeforeEquals(_)
BeforeEquals(words) ==
    IF words = <<>> \/ Head(words) = Chars("=") THEN <<>>
    ELSE <<Head(words)>> \o BeforeEquals(Tail(words))

\* the parts of one parameter: attributes removed, the default value cut
\* off, split at white space, the modifiers dropped
ParamParts(p) ==
    LET stripped == SelectSeq([k \in 1..Len(p) |-> StripAttrs(p[k])],
                              LAMBDA w : w /= <<>>)
        left == BeforeEquals(stripped)
    IN  SelectSeq(left, LAMBDA w : \A m \in PARAM_MODIFIERS : w /= Chars(m))

RECURSIVE ParamLines(_, _)
\* the for p in params loop: one line for each parameter that has a name
ParamLines(params, param_overrides) ==
    IF params = <<>> THEN <<>>
    ELSE LET parts == ParamParts(Head(params))
             last == parts[Len(parts)]
             desc == IF \E w \in DOMAIN param_overrides : Chars(w) = last
                     THEN Lookup(param_overrides, last, D_DEFAULT)
                     ELSE param_korean_desc(last)
         IN  (IF parts = <<>> THEN <<>> ELSE <<DocParam(last, desc)>>)
             \o ParamLines(Tail(params), param_overrides)

\* returns_override or return_hint or return_korean_desc_by_name(summary_text)
ReturnDesc(summary_text, return_hint, returns_override) ==
    IF returns_override /= NoText THEN returns_override
    ELSE IF return_hint /= NoText THEN return_hint
    ELSE return_korean_desc_by_name(summary_text)

build_method_block(summary_text, return_type, params, return_hint, param_overrides, returns_override) ==
    build_summary_block(summary_text)
    \o ParamLines(params, param_overrides)
    \o (IF return_type /= NoText /\ return_type /= "void"
        THEN <<DocReturns(ReturnDesc(summary_text, return_hint, returns_override))>>
        ELSE <<>>)

----------------------------------------------------------------------------
(* guess_summary_for_member *)

\* kind == "type"
GuessTypeSummary(name, file_text, decl_kind) ==
    LET tokens == split_identifier(Chars(name))
    IN  IF decl_kind = "interface"
        THEN (IF StartsWith(Chars(name), Chars("I")) /\ Len(tokens) > 1
              THEN Sentence(to_korean_noun(Rest(tokens)), S_IFACE_OF)
              ELSE Sentence(<<>>, S_IFACE))
        ELSE IF decl_kind = "enum" THEN Sentence(<<>>, S_ENUM)
        ELSE IF TextHas(file_text, "Converters") \/ TextHas(file_text, "IValueConverter")
        THEN Sentence(<<>>, S_CONVERTER_TYPE)
        ELSE IF TextHas(file_text, "Helpers") THEN Sentence(<<>>, S_HELPER_TYPE)
        ELSE IF EndsWith(Chars(name), Chars("Attribute")) THEN Sentence(<<>>, S_ATTRIBUTE_TYPE)
        ELSE IF EndsWith(Chars(name), Chars("Extensions")) \/ EndsWith(Chars(name), Chars("Ext"))
        THEN Sentence(<<>>, S_EXTENSION_TYPE)
        ELSE Sentence(to_korean_noun(tokens), S_PROVIDES)

\* name in ("Convert", "ConvertBack") and ("IValueConverter" in file_text or
\* "System.Windows.Data" in file_text)
IsConverterMember(name, file_text) ==
    /\ name \in {"Convert", "ConvertBack"}
    /\ (TextHas(file_text, "IValueConverter") \/ TextHas(file_text, "System.Windows.Data"))

\* member methods and properties: the first rule that applies
GuessMemberSummary(name, kind, file_text) ==
    LET tokens == split_identifier(Chars(name))
        lower == LowerStr(Chars(name))
        starts(p) == StartsWith(lower, Chars(p))
        obj == to_korean_noun(Rest(tokens))
    IN  IF starts("get")
        THEN (IF Len(tokens) > 1 THEN Sentence(obj, S_GET) ELSE Sentence(<<>>, S_GET_VALUE))
        ELSE IF starts("set")
        THEN (IF Len(tokens) > 1 THEN Sentence(obj, S_SET) ELSE Sentence(<<>>, S_SET_VALUE))
        ELSE IF starts("add") THEN Sentence(obj, S_ADD)
        ELSE IF starts("remove") THEN Sentence(obj, S_REMOVE)
        ELSE IF starts("update") THEN Sentence(obj, S_UPDATE)
        ELSE IF starts("create") \/ starts("build") THEN Sentence(obj, S_CREATE)
        ELSE IF starts("delete") THEN Sentence(obj, S_DELETE)
        ELSE IF starts("find") \/ starts("search") THEN Sentence(obj, S_FIND)
        ELSE IF starts("load") THEN Sentence(obj, S_LOAD)
        ELSE IF starts("save") THEN Sentence(obj, S_SAVE)
        ELSE IF starts("parse") THEN Sentence(obj, S_PARSE)
        ELSE IF IsConverterMember(name, file_text)
        THEN Sentence(<<>>, IF name = "Convert" THEN S_CONVERT_VALUE ELSE S_CONVERT_BACK)
        ELSE IF starts("to") \/ starts("convert") THEN Sentence(obj, S_TO)
        ELSE IF starts("try") THEN Sentence(obj, S_TRY)
        ELSE IF starts("is") THEN Sentence(obj, S_IS)
        ELSE IF starts("has") THEN Sentence(obj, S_HAS)
        ELSE IF IsConverterMember(name, file_text)
        THEN Sentence(<<>>, IF name = "Convert" THEN S_CONVERT_VALUE ELSE S_CONVERT_BACK)
        ELSE IF name = "Contains" THEN Sentence(<<>>, S_CONTAINS)
        ELSE IF name = "StartsWith" THEN Sentence(<<>>, S_STARTSWITH)
        ELSE IF name = "EndsWith" THEN Sentence(<<>>, S_ENDSWITH)
        ELSE IF kind = "property" THEN Sentence(to_korean_noun(tokens), S_GET_OR_SET)
        ELSE Sentence(<<>>, S_FALLBACK)

guess_summary_for_member(name, kind, file_text, return_type, decl_kind) ==
    IF kind = "type" THEN GuessTypeSummary(name, file_text, decl_kind)
    ELSE GuessMemberSummary(name, kind, file_text)

----------------------------------------------------------------------------
(* DOC_OVERRIDES, match_override *)

\* no params, no returns in an entry: .get gives None, which is false
NoParams == <<>>

\* the entries in the order of the dict; a key is the segments of its path
DOC_OVERRIDES == <<
    [key |-> <<"Helpers", "CollectionHelper.cs">>, kind |-> "method", member |-> "AddRange",
     summary |-> O_ADDRANGE,
     params |-> ("collection" :> "target collection" @@       \* "대상 컬렉션"
                 "items" :> "sequence of items to add"),      \* "추가할 항목 시퀀스"
     returns |-> NoText],
    [key |-> <<"Helpers", "ColorHelper.cs">>, kind |-> "method", member |-> "GetColorName",
     summary |-> O_GETCOLORNAME,
     params |-> ("color" :> "colour value"),                  \* "색상 값"
     returns |-> "colour name or colour string"],             \* "색상 이름 또는 색상 문자열"
    [key |-> <<"Helpers", "ColorHelper.cs">>, kind |-> "method", member |-> "ToColor",
     summary |-> O_TOCOLOR,
     params |-> ("str" :> "colour string" @@                  \* "색상 문자열"
                 "defaultColor" :> "default colour returned when parsing fails"),
                                                 \* "파싱 실패 시 반환할 기본 색"
     returns |-> "converted colour value"],                   \* "변환된 색상 값"
    [key |-> <<"Helpers", "ColorHelper.cs">>, kind |-> "method", member |-> "TryConvertColor",
     summary |-> O_TRYCONVERTCOLOR,
     params |-> ("str" :> "colour string" @@                  \* "색상 문자열"
                 "color" :> "resulting colour on success"),   \* "변환 성공 시 결과 색상"
     returns |-> "true on success, false on failure"],        \* "성공하면 true, 실패하면 false"
    [key |-> <<"Helpers", "DataTableHelper.cs">>, kind |-> "method", member |-> "ToList",
     summary |-> O_TOLIST,
     params |-> NoParams,
     returns |-> NoText] >>

NoOverride == [found |-> FALSE]

\* "/".join(path.as_posix().split("/")[-2:]) if len(path.parts) >= 2 else
\* path.as_posix(), as segments
RelKey(p) == IF Len(p) >= 2 THEN SubSeq(p, Len(p) - 1, Len(p)) ELSE p

\* the characters of a key
KeyChars(key) == Join([k \in 1..Len(key) |-> Chars(key[k])], <<"/">>)

\* the entry at index k, as match_override returns it
Found(k) == [found |-> TRUE] @@ DOC_OVERRIDES[k]

\* the least element of a non-empty set of indices
Least(S) == CHOOSE k \in S : \A j \in S : k <= j

match_override(p, member_name, kind) ==
    LET fname == p[Len(p)]
        Member(k) == DOC_OVERRIDES[k].kind = kind /\ DOC_OVERRIDES[k].member = member_name
        idx == 1..Len(DOC_OVERRIDES)
        \* rel in DOC_OVERRIDES and kind in ... and member_name in ...
        exact == {k \in idx : DOC_OVERRIDES[k].key = RelKey(p) /\ Member(k)}
        \* fname in DOC_OVERRIDES and ...
        byName == {k \in idx : DOC_OVERRIDES[k].key = <<fname>> /\ Member(k)}
        \* for key, spec in DOC_OVERRIDES.items(): key.endswith(fname) and ...
        bySuffix == {k \in idx : /\ EndsWith(KeyChars(DOC_OVERRIDES[k].key), Chars(fname))
                                 /\ Member(k)}
    IN  IF exact /= {} THEN Found(Least(exact))
        ELSE IF byName /= {} THEN Found(Least(byName))
        ELSE IF bySuffix /= {} THEN Found(Least(bySuffix))
        ELSE NoOverride

----------------------------------------------------------------------------
(* process_file: the tests it makes on the text of a block *)

\* "<summary>" in block_text
HasSummaryTag(block) == \E k \in 1..Len(block) : block[k].k = "open"

\* "/// 설명" in block_text: a line whose text begins with the placeholder
HasPlaceholderText(block) ==
    \E k \in 1..Len(block) :
        block[k].k = "text" /\ block[k].obj = <<>> /\ block[k].suf \in StartsSeolmyeong

\* "<summary>" in block_text and "/// 설명" in block_text
IsPlaceholderBlock(block) == HasSummaryTag(block) /\ HasPlaceholderText(block)

\* "로 변환합니다." in block_text or "Back로 변환합니다." in block_text
HasGenericConversion(block) ==
    \/ \E k \in 1..Len(block) : block[k].k = "text" /\ block[k].suf \in HasRoByeonhwan
    \/ \E k \in 1..Len(block) :
          /\ block[k].k = "text"
          /\ EndsWith(block[k].obj, Chars("Back"))
          /\ block[k].suf \in StartsRoByeonhwan

----------------------------------------------------------------------------
(* process_file: the decision to replace an existing block *)

\* the type branch
TypeReplace(block, decl_kind) == IsPlaceholderBlock(block) \/ decl_kind = "interface"

\* the method branch
MethodReplace(override, block, name) ==
    \/ override.found
    \/ IsPlaceholderBlock(block)
    \/ (name \in {"Convert", "ConvertBack"} /\ HasGenericConversion(block))

\* the property branch replacing whatever block it finds
PropertyReplaceAlways(block) == TRUE

\* the property branch
PropertyReplace(block) == IsPlaceholderBlock(block)

----------------------------------------------------------------------------
(* process_file: the splices and the cursor *)

\* del buf[start:end+2]: one line too many
DeleteSpanOneMore(buf, start, end) ==
    Slice(buf, 0, start) \o Slice(buf, IF end + 2 <= Len(buf) THEN end + 2 ELSE Len(buf), Len(buf))

\* del buf[start:end+1]
DeleteSpan(buf, start, end) == Slice(buf, 0, start) \o Slice(buf, end + 1, Len(buf))

\* buf[pos:pos] = block
InsertAt(buf, pos, block) == Slice(buf, 0, pos) \o block \o Slice(buf, pos, Len(buf))

\* del lines[start:end+1]; lines[i - (end - start + 1):i - (end - start + 1)] = block
ReplaceBlock(buf, idx, start, end, block) ==
    InsertAt(DeleteSpan(buf, start, end), idx - (end - start + 1), block)

\* the cursor after a replace, the lines deleted above it forgotten
CursorAfterReplaceNoDelta(idx, start, end, n) == idx + n

\* i = i - (end - start + 1) + len(block)
CursorAfterReplace(idx, start, end, n) == idx - (end - start + 1) + n

\* i += len(block)
CursorAfterInsert(idx, n) == idx + n

----------------------------------------------------------------------------
(* main and process_file on one file *)

\* how many times the tool is run on the file
MaxRuns == 2

NoStep == [op |-> "none", decl |-> 0, start |-> 0, end |-> 0, len |-> 0]

Zeros(n) == [k \in 1..n |-> 0]

\* main reaches the file: total += 1, and process_file reads it
Start ==
    /\ pc = "idle"
    /\ total' = total + 1
    /\ text' = disk
    /\ lines' = disk
    /\ changed' = FALSE
    /\ current_type' = NoText
    /\ i' = 0
    /\ pc' = "scan"
    /\ ids' = [k \in 1..Len(disk) |-> k]
    /\ tested' = [k \in 1..Len(disk) |-> 0]
    /\ tested_built' = 0
    /\ wrote' = FALSE
    /\ step' = NoStep
    /\ UNCHANGED <<path, disk, changed_files, runs, after, tokVars>>

\* the patterns are tried on lines[i]
Tried ==
    IF At(ids, i) = 0
    THEN tested_built' = tested_built + 1 /\ UNCHANGED tested
    ELSE tested' = [tested EXCEPT ![At(ids, i)] = @ + 1] /\ UNCHANGED tested_built

\* what the three branches do once the declaration is matched: replace the
\* block found, leave it, or insert a block where none is found; then i += 1
Reconcile(block_pos, replace, block) ==
    IF block_pos /= None /\ replace
    THEN LET start == block_pos[1]
             end == block_pos[2]
         IN  /\ lines' = ReplaceBlock(lines, i, start, end, block)
             /\ ids' = ReplaceBlock(ids, i, start, end, Zeros(Len(block)))
             /\ i' = CursorAfterReplace(i, start, end, Len(block)) + 1
             /\ changed' = TRUE
             /\ step' = [op |-> "replace", decl |-> At(ids, i), start |-> start,
                         end |-> end, len |-> Len(block)]
    ELSE IF block_pos /= None
    THEN /\ i' = i + 1
         /\ step' = [op |-> "keep", decl |-> At(ids, i), start |-> block_pos[1],
                     end |-> block_pos[2], len |-> 0]
         /\ UNCHANGED <<lines, ids, changed>>
    ELSE /\ lines' = InsertAt(lines, i, block)
         /\ ids' = InsertAt(ids, i, Zeros(Len(block)))
         /\ i' = CursorAfterInsert(i, Len(block)) + 1
         /\ changed' = TRUE
         /\ step' = [op |-> "insert", decl |-> At(ids, i), start |-> i,
                     end |-> i, len |-> Len(block)]

\* the block found above lines[i], as lines
BlockText(block_pos) == Slice(lines, block_pos[1], block_pos[2] + 1)

\* lines[i] is a type declaration
ScanType ==
    /\ pc = "scan"
    /\ i < Len(lines)
    /\ TYPE_PATTERN(At(lines, i)).ok
    /\ LET m_type == TYPE_PATTERN(At(lines, i))
           block_pos == find_preceding_xml_block(lines, i)
           summary == guess_summary_for_member(m_type.name, "type", text, NoText, m_type.kind)
       IN  /\ current_type' = m_type.name
           /\ Reconcile(block_pos,
                        block_pos /= None /\ TypeReplace(BlockText(block_pos), m_type.kind),
                        build_summary_block(summary))
    /\ Tried
    /\ UNCHANGED <<path, disk, pc, total, changed_files, text, runs, after, wrote, tokVars>>

\* the return_hint of the method branch
ReturnHint(name) ==
    IF \/ StartsWith(Chars(name), Chars("Try"))
       \/ name \in {"Contains", "StartsWith", "EndsWith"}
       \/ StartsWith(Chars(name), Chars("Is"))
       \/ StartsWith(Chars(name), Chars("Has"))
    THEN R_CONDITION
    ELSE NoText

\* the block the method branch builds
MethodBlock(m_method) ==
    LET name == m_method.name
        is_ctor == current_type /= NoText /\ name = current_type
        ret_for_doc == IF is_ctor THEN "void" ELSE m_method.ret
        override == match_override(path, name, "method")
        guessed == guess_summary_for_member(name, "method", text, ret_for_doc, NoText)
        summary == IF override.found /\ override.summary /= NoText
                   THEN Sentence(<<>>, override.summary)
                   ELSE guessed
        param_over == IF override.found THEN override.params ELSE NoParams
        returns_over == IF override.found THEN override.returns ELSE NoText
    IN  build_method_block(summary, ret_for_doc, m_method.params, ReturnHint(name),
                           param_over, returns_over)

\* lines[i] is no type declaration and is a method signature
ScanMethod ==
    /\ pc = "scan"
    /\ i < Len(lines)
    /\ ~TYPE_PATTERN(At(lines, i)).ok
    /\ METHOD_PATTERN(At(lines, i)).ok
    /\ LET m_method == METHOD_PATTERN(At(lines, i))
           block_pos == find_preceding_xml_block(lines, i)
           override == match_override(path, m_method.name, "method")
       IN  Reconcile(block_pos,
                     block_pos /= None
                        /\ MethodReplace(override, BlockText(block_pos), m_method.name),
                     MethodBlock(m_method))
    /\ Tried
    /\ UNCHANGED <<path, disk, pc, total, changed_files, text, current_type, runs, after,
                   wrote, tokVars>>

\* lines[i] is neither and is a property declaration
ScanProperty ==
    /\ pc = "scan"
    /\ i < Len(lines)
    /\ ~TYPE_PATTERN(At(lines, i)).ok
    /\ ~METHOD_PATTERN(At(lines, i)).ok
    /\ PROPERTY_PATTERN(At(lines, i)).ok
    /\ LET m_prop == PROPERTY_PATTERN(At(lines, i))
           block_pos == find_preceding_xml_block(lines, i)
           summary == guess_summary_for_member(m_prop.name, "property", text, NoText, NoText)
       IN  Reconcile(block_pos,
                     block_pos /= None /\ PropertyReplace(BlockText(block_pos)),
                     build_summary_block(summary))
    /\ Tried
    /\ UNCHANGED <<path, disk, pc, total, changed_files, text, current_type, runs, after,
                   wrote, tokVars>>

\* lines[i] matches no pattern: i += 1
ScanOther ==
    /\ pc = "scan"
    /\ i < Len(lines)
    /\ ~TYPE_PATTERN(At(lines, i)).ok
    /\ ~METHOD_PATTERN(At(lines, i)).ok
    /\ ~PROPERTY_PATTERN(At(lines, i)).ok
    /\ i' = i + 1
    /\ step' = [op |-> "skip", decl |-> At(ids, i), start |-> 0, end |-> 0, len |-> 0]
    /\ Tried
    /\ UNCHANGED <<path, disk, pc, total, changed_files, text, lines, changed, current_type,
                   runs, after, wrote, ids, tokVars>>

\* the loop ends: if changed, write_text; return changed; main counts the
\* file if it was true, and prints
Finish ==
    /\ pc = "scan"
    /\ i >= Len(lines)
    /\ disk' = IF changed THEN lines ELSE disk
    /\ wrote' = changed
    /\ changed_files' = IF changed THEN changed_files + 1 ELSE changed_files
    /\ pc' = "done"
    /\ runs' = runs + 1
    /\ after' = Append(after, IF changed THEN lines ELSE disk)
    /\ UNCHANGED <<path, total, text, lines, changed, current_type, i, ids, tested,
                   tested_built, step, tokVars>>

\* the tool is run again on the same root
Reinvoke ==
    /\ pc = "done"
    /\ runs < MaxRuns
    /\ pc' = "idle"
    /\ total' = 0
    /\ changed_files' = 0
    /\ UNCHANGED <<path, disk, text, lines, changed, current_type, i, runs, after, wrote,
                   ids, tested, tested_built, step, tokVars>>

----------------------------------------------------------------------------
(* The input files *)

L_BLANK == BlankLine
\* [Attr]
L_ATTR == AttrLine("Attr")
\* /// (some hand-written text)
L_AUTHOR == DocText(<<>>, A_AUTHOR)
\* /// <summary>
L_OPEN == DocOpen
\* /// 설명
L_PLACEHOLDER == DocText(<<>>, A_PLACEHOLDER)
\* public class Widget
L_CLASS == CodeLine(<<"public", "class", "Widget">>, FALSE, <<>>, "")
\* public interface IFoo
L_IFACE == CodeLine(<<"public", "interface", "IFoo">>, FALSE, <<>>, "")
\* public Widget(int size)
L_CTOR == CodeLine(<<"public", "Widget">>, TRUE, << <<Tok("int"), Tok("size")>> >>, "")
\* public bool TryParse(string input, out int result)
L_TRY == CodeLine(<<"public", "bool", "TryParse">>, TRUE,
                  << <<Tok("string"), Tok("input")>>,
                     <<Tok("out"), Tok("int"), Tok("result")>> >>, "")
\* public static Color ToColor(this string str)
L_TOCOLOR == CodeLine(<<"public", "static", "Color", "ToColor">>, TRUE,
                      << <<Tok("this"), Tok("string"), Tok("str")>> >>, "")
\* public object Convert(object IValue[x]Converter)
L_CONVERT == CodeLine(<<"public", "object", "Convert">>, TRUE,
                      << <<Tok("object"),
                           <<Piece("IValue"), Bracket("x"), Piece("Converter")>> >> >>, "")
\* public int Count { get; }
L_PROP == CodeLine(<<"public", "int", "Count">>, FALSE, <<>>, "{ get; }")

MaxLines == 3

FileLines == {L_ATTR, L_AUTHOR, L_OPEN, L_PLACEHOLDER, L_CLASS, L_IFACE, L_CTOR, L_TRY,
              L_TOCOLOR, L_CONVERT, L_PROP}

Files == UNION {[1..n -> FileLines] : n \in 0..MaxLines}

Paths == {<<"Helpers", "ColorHelper.cs">>, <<"Views", "Main.cs">>}

InitFile(file_paths, files) ==
    /\ path \in file_paths
    /\ disk \in files
    /\ pc = "idle"
    /\ total = 0
    /\ changed_files = 0
    /\ text = <<>>
    /\ lines = <<>>
    /\ changed = FALSE
    /\ current_type = NoText
    /\ i = 0
    /\ runs = 0
    /\ after = <<>>
    /\ wrote = FALSE
    /\ ids = <<>>
    /\ tested = <<>>
    /\ tested_built = 0
    /\ step = NoStep
    /\ ident = <<>>
    /\ frags = <<>>
    /\ tpc = "off"

Init == InitFile(Paths, Files)

Next ==
    \/ Start
    \/ ScanType
    \/ ScanMethod
    \/ ScanProperty
    \/ ScanOther
    \/ Finish
    \/ Reinvoke

Spec == Init /\ [][Next]_vars

\* one run of the tool, on longer files of fewer kinds of line
MaxScanLines == 5

ScanLines == {L_BLANK, L_ATTR, L_AUTHOR, L_OPEN, L_PLACEHOLDER, L_IFACE, L_TRY, L_PROP}

ScanFiles == UNION {[1..n -> ScanLines] : n \in 0..MaxScanLines}

InitOnce == InitFile({<<"Views", "Main.cs">>}, ScanFiles)

NextOnce ==
    \/ Start
    \/ ScanType
    \/ ScanMethod
    \/ ScanProperty
    \/ ScanOther
    \/ Finish

SpecOnce == InitOnce /\ [][NextOnce]_vars

----------------------------------------------------------------------------
(* The properties *)

\* the lines of a buffer that are no /// lines, in order
NonDoc(buf) == SelectSeq(buf, LAMBDA l : ~IsDocLine(l))

\* the declaration the loop recognizes in a line: the patterns in their order
DeclOf(l) ==
    IF TYPE_PATTERN(l).ok
    THEN [ok |-> TRUE, kind |-> "type", name |-> TYPE_PATTERN(l).name,
          decl_kind |-> TYPE_PATTERN(l).kind]
    ELSE IF METHOD_PATTERN(l).ok
    THEN [ok |-> TRUE, kind |-> "method", name |-> METHOD_PATTERN(l).name, decl_kind |-> NoText]
    ELSE IF PROPERTY_PATTERN(l).ok
    THEN [ok |-> TRUE, kind |-> "property", name |-> PROPERTY_PATTERN(l).name,
          decl_kind |-> NoText]
    ELSE [ok |-> FALSE, kind |-> NoText, name |-> NoText, decl_kind |-> NoText]

\* the index in the buffer of the line that was line k of the file as read
\* (0-based), -1 if it is there no more
IndexOf(k) ==
    IF \E q \in 1..Len(ids) : ids[q] = k
    THEN (CHOOSE q \in 1..Len(ids) : ids[q] = k) - 1
    ELSE -1

\* C1: the content of the file after the second run is, line for line, its
\* content after the first run.
Idempotence == Len(after) >= 2 => after[2] = after[1]

\* the loop is at a recognized declaration that has a block above it, and
\* none of the conditions to replace it holds
KeepCase ==
    /\ pc = "scan"
    /\ i < Len(lines)
    /\ DeclOf(At(lines, i)).ok
    /\ find_preceding_xml_block(lines, i) /= None
    /\ LET d == DeclOf(At(lines, i))
           block == BlockText(find_preceding_xml_block(lines, i))
       IN  /\ ~IsPlaceholderBlock(block)
           /\ ~match_override(path, d.name, d.kind).found
           /\ ~(d.kind = "type" /\ d.decl_kind = "interface")
           /\ ~(d.kind = "method" /\ d.name \in {"Convert", "ConvertBack"}
                  /\ HasGenericConversion(block))

\* C2: when a recognized declaration has a block above it and no condition
\* to replace holds, the iteration leaves every line of the buffer, the
\* block's among them, as it is, and inserts nothing.
KeepPolicy == [][KeepCase => lines' = lines /\ changed' = changed /\ i' = i + 1]_vars

\* a method with a hand-written block above it has just been left alone
KeepPolicyWitness ==
    /\ pc = "scan"
    /\ step.op = "keep"
    /\ i >= 2
    /\ At(lines, i - 1) = L_TRY
    /\ At(lines, i - 2) = L_AUTHOR
    /\ lines = text

\* C3: every line of the file as read is the line under the patterns exactly
\* once (the lines above the cursor have been, the lines from the cursor on
\* have not), no line of a built block ever is, and after an insert or a
\* replace the cursor is on the line after the declaration just handled.
CursorDiscipline ==
    /\ tested_built = 0
    /\ \A k \in 1..Len(tested) : tested[k] <= 1
    /\ pc = "scan" =>
          \A q \in 1..Len(ids) : ids[q] /= 0 => (tested[ids[q]] = 1 <=> q <= i)
    /\ pc = "scan" =>
          \A k \in 1..Len(tested) : IndexOf(k) = -1 => tested[k] = 1
    /\ pc = "done" => \A k \in 1..Len(tested) : tested[k] = 1
    /\ (pc = "scan" /\ step.op \in {"insert", "replace"}) =>
          /\ i >= 1
          /\ i <= Len(ids)
          /\ At(ids, i - 1) = step.decl
          /\ \A q \in 1..step.len : i - 1 - q >= 0 /\ At(ids, i - 1 - q) = 0

\* a block has been replaced by a shorter one, above the last line of the file
CursorDisciplineWitness ==
    /\ pc = "scan"
    /\ step.op = "replace"
    /\ step.end - step.start + 1 > step.len
    /\ i = Len(lines)

\* C4: after a replace of the block [start, end], the first line of the new
\* block is at index start of the buffer.
ReplacePosition ==
    (pc = "scan" /\ step.op = "replace") =>
        /\ step.start < Len(lines)
        /\ At(ids, step.start) = 0
        /\ At(lines, step.start) = DocOpen

\* C5: process_file writes the file and returns true, and main counts the
\* file, only if the buffer differs from the content that was read.
WriteBackOnlyOnChange ==
    (pc = "done" /\ (wrote \/ changed \/ changed_files > 0)) => lines /= text

\* what C6 asks of the locator's answer for the line at idx
LocatorContract(buf, idx) ==
    LET r == find_preceding_xml_block(buf, idx)
        Passed(k) == IsBlankLine(At(buf, k)) \/ IsAttrLine(At(buf, k))
    IN  IF r = None
        THEN \* no /// line above idx before the first line that is neither blank
             \* nor an attribute
             \A k \in 0..(idx - 1) :
                 IsDocLine(At(buf, k)) => \E j \in (k + 1)..(idx - 1) : ~Passed(j)
        ELSE /\ Len(r) = 2
             /\ 0 <= r[1] /\ r[1] <= r[2] /\ r[2] < idx
             /\ \A k \in r[1]..r[2] : IsDocLine(At(buf, k))
             /\ \A k \in (r[2] + 1)..(idx - 1) : Passed(k)
             /\ (r[1] - 1 >= 0 => ~IsDocLine(At(buf, r[1] - 1)))

\* C6: for every line of every buffer, find_preceding_xml_block returns None
\* or a span (start, end), end < idx, of /// lines only, with only blank and
\* attribute lines between it and idx and no /// line right above it; it
\* returns None when the first line above idx that is neither blank nor an
\* attribute is no /// line.
LocatorContiguity ==
    \A idx \in 0..Len(lines) : LocatorContract(lines, idx)

\* two runs of /// lines with a blank line between them: the block found for
\* the declaration below them is the lower run alone
LocatorContiguityWitness ==
    /\ pc = "scan"
    /\ step.op = "keep"
    /\ Len(lines) >= 4
    /\ SubSeq(lines, 1, 4) = <<L_AUTHOR, L_BLANK, L_AUTHOR, L_TRY>>
    /\ i = 4
    /\ step.start = 2
    /\ step.end = 2

\* right above the line that was line k of the file as read is the block of
\* a void method with one parameter, size
CtorBlockAbove(k) ==
    LET q == IndexOf(k)
    IN  /\ q >= 4
        /\ At(lines, q - 4) = DocOpen
        /\ At(lines, q - 3).tag = "doc" /\ At(lines, q - 3).k = "text"
        /\ At(lines, q - 2) = DocClose
        /\ At(lines, q - 1).tag = "doc" /\ At(lines, q - 1).k = "param"
        /\ At(lines, q - 1).name = Chars("size")

\* C7: a constructor line public Widget(int size) right after the line of
\* class Widget, so with no block above it, gets a block with one parameter
\* line, for size, and no returns line.
ConstructorScenario ==
    (pc = "done" /\ runs = 1) =>
        \A k \in 2..Len(text) :
            (text[k] = L_CTOR /\ text[k - 1] = L_CLASS) => CtorBlockAbove(k)

\* C8: the block built for public bool TryParse(string input, out int result),
\* with no block above it and no override, ends with the returns line of the
\* success sentence.
TryRuleReturns ==
    (pc = "scan" /\ step.op = "insert" /\ i >= 2 /\ At(lines, i - 1) = L_TRY) =>
        At(lines, i - 2) = DocReturns(R_SUCCESS)

\* C10, in every state: the lines that are no /// lines are those of the
\* file as read, in their order; every line of a built block is a /// line;
\* every line of the file as read that is gone was a /// line.
SurroundingTextState ==
    pc \in {"scan", "done"} =>
        /\ NonDoc(lines) = NonDoc(text)
        /\ \A q \in 1..Len(ids) : ids[q] = 0 => IsDocLine(lines[q])
        /\ \A k \in 1..Len(text) : IndexOf(k) = -1 => IsDocLine(text[k])

\* C10, in every iteration: the lines that go are lines of the block found
\* above the declaration under the cursor.
SurroundingTextStep ==
    (pc = "scan" /\ i < Len(lines)) =>
        LET r == find_preceding_xml_block(lines, i)
            gone == Range(ids) \ Range(ids')
        IN  gone \subseteq (IF r = None THEN {} ELSE {At(ids, k) : k \in r[1]..r[2]})

\* C10: the splices of process_file delete only /// lines of the block found
\* for the declaration being handled, insert only /// lines, and leave the
\* other lines of the file as they were, in content and in order.
SurroundingTextPreserved == []SurroundingTextState /\ [][SurroundingTextStep]_vars

\* a block with an attribute line between it and its declaration has been
\* replaced
SurroundingTextWitness ==
    /\ pc = "scan"
    /\ step.op = "replace"
    /\ step.end + 1 < (i - 1 - step.len) + (step.end - step.start + 1)
    /\ IsAttrLine(At(lines, step.start))
    /\ Len(lines) /= Len(text)

----------------------------------------------------------------------------
(* The tokenizer on its own: every identifier over a small alphabet *)

MaxIdLen == 4

\* two uppercase letters, two lowercase letters, a digit, a separator
IdAlphabet == {"G", "X", "e", "t", "1", "_"}

Identifiers == UNION {[1..n -> IdAlphabet] : n \in 0..MaxIdLen}

InitTok ==
    /\ ident \in Identifiers
    /\ frags = <<>>
    /\ tpc = "call"
    /\ path = <<>>
    /\ disk = <<>>
    /\ pc = "off"
    /\ total = 0
    /\ changed_files = 0
    /\ text = <<>>
    /\ lines = <<>>
    /\ changed = FALSE
    /\ current_type = NoText
    /\ i = 0
    /\ runs = 0
    /\ after = <<>>
    /\ wrote = FALSE
    /\ ids = <<>>
    /\ tested = <<>>
    /\ tested_built = 0
    /\ step = NoStep

Tokenize ==
    /\ tpc = "call"
    /\ frags' = split_identifier(ident)
    /\ tpc' = "ret"
    /\ UNCHANGED <<ident, fileVars>>

NextTok == Tokenize

SpecTok == InitTok /\ [][NextTok]_vars

\* C9: the fragments, concatenated in order, are the identifier with the
\* characters that are neither letters nor digits removed, and the list of
\* fragments is empty only if the identifier has no letter and no digit.
TokenizationInvariant ==
    tpc = "ret" =>
        /\ Flatten(frags) = SelectChars(ident, AlnumSet)
        /\ (frags = <<>> => SelectChars(ident, AlnumSet) = <<>>)
        /\ \A k \in 1..Len(frags) : frags[k] /= <<>>

\* GetX, whose X is one uppercase letter at the end
TokenizationWitness ==
    /\ tpc = "ret"
    /\ ident = <<"G", "e", "t", "X">>
    /\ frags = << <<"G", "e", "t">>, <<"X">> >>

====
